---- MODULE Spec2Model ----
(***************************************************************************)
(* A model of render_files.py: update_bmh_files (the BMH injection into    *)
(* the bootstrap ignition document) and generate_installation_files with   *)
(* its backup_restore_install_config context manager.                      *)
(*                                                                         *)
(* The document file is modelled by its serialized form, a sequence of     *)
(* tokens; json.load / json.dump are Decode / Encode over that sequence,   *)
(* and json.dump writes the encoder's chunks to the file one at a time.    *)
(***************************************************************************)
EXTENDS Integers, Sequences, FiniteSets, TLC

\* Bounds of the model.
MaxFiles == 3
MaxHosts == 2
MaxConfig == 5

\* ---------------------------------------------------------------- values

HostIds == {"host-1", "host-2"}

\* contents of a file entry: the placeholder manifest, an undecodable
\* payload, or a manifest carrying the data of host h (h \in HostIds).
Placeholder == "placeholder"
Malformed == "malformed"

BmhPath == "openshift/99_openshift-cluster-api_hosts.yaml"
OtherPath == "/etc/motd"
NoPath == "<no path key>"

\* bmh_utils.is_bmh_cr_file: the naming-convention predicate over a path.
is_bmh_cr_file(path) == path = BmhPath

\* The file entries the installer may have produced.
Entries ==
    { [path |-> BmhPath, contents |-> Placeholder, mode |-> 420],
      [path |-> BmhPath, contents |-> Malformed, mode |-> 420],
      [path |-> OtherPath, contents |-> Placeholder, mode |-> 384],
      [path |-> NoPath, contents |-> Placeholder, mode |-> 420] }

SeqsUpTo(S, n) == UNION { [1..k -> S] : k \in 0..n }

\* A decoded document: data['storage']['files'] exists or not.
Docs ==
    { [storage |-> TRUE, files |-> fs] : fs \in SeqsUpTo(Entries, MaxFiles) }
    \cup { [storage |-> FALSE, files |-> <<>>] }

NoData == [storage |-> FALSE, files |-> <<>>]

\* ------------------------------------------------------- the JSON codec

Punct(t) == [t |-> t, path |-> "", contents |-> "", mode |-> 0]
FileTok(e) == [t |-> "file", path |-> e.path, contents |-> e.contents, mode |-> e.mode]
EntryOf(tok) == [path |-> tok.path, contents |-> tok.contents, mode |-> tok.mode]

\* json.dump: the chunks the encoder yields for a document, in order.
Encode(doc) ==
    <<Punct("{")>>
    \o (IF doc.storage
        THEN <<Punct("[")>> \o [i \in 1..Len(doc.files) |-> FileTok(doc.files[i])]
             \o <<Punct("]")>>
        ELSE <<>>)
    \o <<Punct("}")>>

WellFormed(bytes) ==
    /\ Len(bytes) >= 2
    /\ bytes[1] = Punct("{")
    /\ bytes[Len(bytes)] = Punct("}")
    /\ \/ Len(bytes) = 2
       \/ /\ Len(bytes) >= 4
          /\ bytes[2] = Punct("[")
          /\ bytes[Len(bytes) - 1] = Punct("]")
          /\ \A i \in 3..(Len(bytes) - 2) : bytes[i].t = "file"

\* json.load: the document of a well-formed file.
Decode(bytes) ==
    IF Len(bytes) = 2
    THEN [storage |-> FALSE, files |-> <<>>]
    ELSE [storage |-> TRUE,
          files |-> [i \in 1..(Len(bytes) - 4) |-> EntryOf(bytes[i + 2])]]

\* Files that json.load rejects: empty or cut short.
BrokenFiles == { <<>>, <<Punct("{"), Punct("[")>> }

\* ------------------------------------------------------------- the state

VARIABLES
    disk,               \* the bytes of ignition_file on disk
    inventory,          \* the host list the inventory returns for the cluster
    inventory_endpoint, \* TRUE: a live endpoint is configured
    pc,                 \* position of update_bmh_files
    hosts_list,         \* local: the host list handed to the mutator
    data,               \* local: the decoded document
    idx,                \* local: position of "for file_data in storage_files"
    error,              \* the exception update_bmh_files raised to its caller
    disk0,              \* history: the file when the call started
    raised,             \* history: the failure raised inside the try block
    openedW,            \* history: the file was opened for writing
    encoded,            \* history: chunks the JSON encoder has produced
    fetches,            \* history: number of host list retrievals
    calls,              \* history: <<entry index, host applied>> per mutator call
    run,                \* which invocation this is (two-run scenario)
    first,              \* the file the first invocation persisted
    reader,             \* position of the concurrent reader
    observed,           \* what the reader read
    gpc,                \* position of generate_installation_files
    cfg,                \* install-config.yaml: {} absent, {c} content c
    bak,                \* backup-install-config.yaml, likewise
    gerr,               \* the exception generate_installation_files raised
    cfg0,               \* history: install-config.yaml at the call
    bakAtRun,           \* history: the backup when the installer started
    cfgLeft,            \* history: install-config.yaml as the installer left it
    installer           \* history: "not run", "ok" or "failed"

uvars == <<disk, inventory, inventory_endpoint, pc, hosts_list, data, idx, error,
           disk0, raised, openedW, encoded, fetches, calls>>
tvars == <<run, first>>
rvars == <<reader, observed>>
gvars == <<gpc, cfg, bak, gerr, cfg0, bakAtRun, cfgLeft, installer>>
vars == <<uvars, tvars, rvars, gvars>>

NoError == [msg |-> "", cause |-> ""]
Absent == {}
ConfigFiles == { Absent } \cup { {c} : c \in 1..MaxConfig }

\* The state update_bmh_files starts in, for a given file and inventory.
StartUpdate ==
    /\ pc = "Idle"
    /\ hosts_list = <<>>
    /\ data = NoData
    /\ idx = 0
    /\ error = NoError
    /\ disk0 = disk
    /\ raised = ""
    /\ openedW = FALSE
    /\ encoded = 0
    /\ fetches = 0
    /\ calls = <<>>
    /\ run = 1
    /\ first = <<>>
    /\ reader = "waiting"
    /\ observed = <<>>

\* The state generate_installation_files starts in, for given files.
StartGenerate ==
    /\ gpc = "start"
    /\ gerr = NoError
    /\ cfg0 = cfg
    /\ bakAtRun = Absent
    /\ cfgLeft = Absent
    /\ installer = "not run"

Init ==
    /\ disk \in { Encode(d) : d \in Docs } \cup BrokenFiles
    /\ inventory \in SeqsUpTo(HostIds, MaxHosts)
    /\ inventory_endpoint \in BOOLEAN
    /\ StartUpdate
    /\ cfg = {1}
    /\ bak = Absent
    /\ StartGenerate

InitGen ==
    /\ disk = Encode(NoData)
    /\ inventory = <<>>
    /\ inventory_endpoint = FALSE
    /\ StartUpdate
    /\ cfg \in ConfigFiles
    /\ bak \in ConfigFiles
    /\ StartGenerate

\* ------------------------------------------------- update_bmh_files

\* bmh_utils.update_bmh_cr_file(file_data, hosts_list): decodes the embedded
\* manifest, takes the next host record of the list it was handed and
\* writes that host's data into the entry's contents; the list object it
\* was handed is left without the record it used.  Raises on an
\* undecodable payload and when no host record is left.
update_bmh_cr_file(file_data, hosts) ==
    IF file_data.contents = Malformed
    THEN [ok |-> FALSE, err |-> "DecodeError", file_data |-> file_data, hosts |-> hosts]
    ELSE IF hosts = <<>>
    THEN [ok |-> FALSE, err |-> "CorrelationError", file_data |-> file_data, hosts |-> hosts]
    ELSE [ok |-> TRUE, err |-> "",
          file_data |-> [file_data EXCEPT !.contents = Head(hosts)],
          hosts |-> Tail(hosts)]

\* raise Exception('Failed to update BMH CRs ..., exception: {}'.format(ex))
\* A faulty variant of the wrapper: the cause is dropped.
WrapNoCause(cause) == [msg |-> "Failed to update BMH CRs in bootstrap ignition", cause |-> ""]
Wrap(cause) == [msg |-> "Failed to update BMH CRs in bootstrap ignition", cause |-> cause]

\* A faulty variant of the handler: it persists whatever was decoded so far.
FailWritesPartial(cause) ==
    /\ raised' = cause
    /\ error' = Wrap(cause)
    /\ pc' = "Failed"
    /\ disk' = IF pc \in {"DocumentDecoded"} THEN Encode(data) ELSE disk
    /\ openedW' = (openedW \/ pc \in {"DocumentDecoded"})

\* "except Exception as ex": a failure raised at any statement of the try
\* block ends the call with the wrapped exception; nothing else is done.
Fail(cause) ==
    /\ raised' = cause
    /\ error' = Wrap(cause)
    /\ pc' = "Failed"
    /\ UNCHANGED <<disk, openedW>>

\* Lines 43-47: the host list, from the live inventory or the test provider.
\* A faulty variant of the retrieval: the list of an earlier call is reused.
FetchHostsCached ==
    /\ pc = "Idle"
    /\ \/ /\ hosts_list' = IF run = 1 THEN inventory ELSE hosts_list
          /\ fetches' = fetches + 1
          /\ pc' = "HostsFetched"
          /\ UNCHANGED <<error, raised, disk, openedW>>
       \/ /\ inventory_endpoint
          /\ Fail("RetrievalError")
          /\ UNCHANGED <<hosts_list, fetches>>
    /\ UNCHANGED <<inventory, inventory_endpoint, data, idx, disk0, encoded, calls>>
    /\ UNCHANGED <<tvars, rvars, gvars>>

FetchHosts ==
    /\ pc = "Idle"
    /\ \/ /\ hosts_list' = inventory
          /\ fetches' = fetches + 1
          /\ pc' = "HostsFetched"
          /\ UNCHANGED <<error, raised, disk, openedW>>
       \/ /\ inventory_endpoint
          /\ Fail("RetrievalError")
          /\ UNCHANGED <<hosts_list, fetches>>
    /\ UNCHANGED <<inventory, inventory_endpoint, data, idx, disk0, encoded, calls>>
    /\ UNCHANGED <<tvars, rvars, gvars>>

\* Lines 49-51: open for reading, json.load, data['storage']['files'].
DecodeDocument ==
    /\ pc = "HostsFetched"
    /\ \/ /\ WellFormed(disk)
          /\ Decode(disk).storage
          /\ data' = Decode(disk)
          /\ idx' = 1
          /\ pc' = "DocumentDecoded"
          /\ UNCHANGED <<error, raised, disk, openedW>>
       \/ /\ WellFormed(disk)
          /\ ~Decode(disk).storage
          /\ Fail("KeyError")
          /\ UNCHANGED <<data, idx>>
       \/ /\ ~WellFormed(disk)
          /\ Fail("DecodeError")
          /\ UNCHANGED <<data, idx>>
       \/ /\ Fail("FileNotFoundError")
          /\ UNCHANGED <<data, idx>>
    /\ UNCHANGED <<inventory, inventory_endpoint, hosts_list, disk0, encoded, fetches, calls>>
    /\ UNCHANGED <<tvars, rvars, gvars>>

\* What a step of the loop leaves alone when it raises.
LoopRaises(cause) ==
    /\ Fail(cause)
    /\ UNCHANGED <<data, idx, hosts_list, calls>>

LoopFrame ==
    /\ UNCHANGED <<inventory, inventory_endpoint, disk0, encoded, fetches>>
    /\ UNCHANGED <<tvars, rvars, gvars>>

\* A faulty variant of the loop: the mutator is called on every entry.
LoopStepNoGuard ==
    /\ pc = "DocumentDecoded"
    /\ idx <= Len(data.files)
    /\ LET file_data == data.files[idx]
           res == update_bmh_cr_file(file_data, hosts_list)
       IN  \/ /\ file_data.path = NoPath
              /\ LoopRaises("KeyError")
           \/ /\ file_data.path # NoPath
              /\ res.ok
              /\ data' = [data EXCEPT !.files[idx] = res.file_data]
              /\ hosts_list' = res.hosts
              /\ calls' = Append(calls, [i |-> idx, host |-> res.file_data.contents])
              /\ idx' = idx + 1
              /\ UNCHANGED <<pc, error, raised, disk, openedW>>
           \/ /\ file_data.path # NoPath
              /\ ~res.ok
              /\ LoopRaises(res.err)
    /\ LoopFrame

\* A faulty variant of the loop: each call is handed a fresh copy of the host list.
LoopStepCopy ==
    /\ pc = "DocumentDecoded"
    /\ idx <= Len(data.files)
    /\ LET file_data == data.files[idx]
           res == update_bmh_cr_file(file_data, hosts_list)
       IN  \/ /\ file_data.path = NoPath
              /\ LoopRaises("KeyError")
           \/ /\ file_data.path # NoPath
              /\ ~is_bmh_cr_file(file_data.path)
              /\ idx' = idx + 1
              /\ UNCHANGED <<pc, error, raised, disk, openedW, data, hosts_list, calls>>
           \/ /\ file_data.path # NoPath
              /\ is_bmh_cr_file(file_data.path)
              /\ res.ok
              /\ data' = [data EXCEPT !.files[idx] = res.file_data]
              /\ calls' = Append(calls, [i |-> idx, host |-> res.file_data.contents])
              /\ idx' = idx + 1
              /\ UNCHANGED <<pc, error, raised, disk, openedW, hosts_list>>
           \/ /\ file_data.path # NoPath
              /\ is_bmh_cr_file(file_data.path)
              /\ ~res.ok
              /\ LoopRaises(res.err)
    /\ LoopFrame

\* A faulty variant of the loop: an entry whose mutation raises is skipped.
LoopStepSkip ==
    /\ pc = "DocumentDecoded"
    /\ idx <= Len(data.files)
    /\ LET file_data == data.files[idx]
           res == update_bmh_cr_file(file_data, hosts_list)
       IN  \/ /\ file_data.path = NoPath
              /\ LoopRaises("KeyError")
           \/ /\ file_data.path # NoPath
              /\ ~is_bmh_cr_file(file_data.path) \/ ~res.ok
              /\ idx' = idx + 1
              /\ UNCHANGED <<pc, error, raised, disk, openedW, data, hosts_list, calls>>
           \/ /\ file_data.path # NoPath
              /\ is_bmh_cr_file(file_data.path)
              /\ res.ok
              /\ data' = [data EXCEPT !.files[idx] = res.file_data]
              /\ hosts_list' = res.hosts
              /\ calls' = Append(calls, [i |-> idx, host |-> res.file_data.contents])
              /\ idx' = idx + 1
              /\ UNCHANGED <<pc, error, raised, disk, openedW>>
    /\ LoopFrame

\* Lines 53-55: one iteration of "for file_data in storage_files".  The
\* entry is mutated in place and the same hosts_list object is handed to
\* every call.
LoopStep ==
    /\ pc = "DocumentDecoded"
    /\ idx <= Len(data.files)
    /\ LET file_data == data.files[idx]
           res == update_bmh_cr_file(file_data, hosts_list)
       IN  \/ /\ file_data.path = NoPath
              /\ LoopRaises("KeyError")
           \/ /\ file_data.path # NoPath
              /\ ~is_bmh_cr_file(file_data.path)
              /\ idx' = idx + 1
              /\ UNCHANGED <<pc, error, raised, disk, openedW, data, hosts_list, calls>>
           \/ /\ file_data.path # NoPath
              /\ is_bmh_cr_file(file_data.path)
              /\ res.ok
              /\ data' = [data EXCEPT !.files[idx] = res.file_data]
              /\ hosts_list' = res.hosts
              /\ calls' = Append(calls, [i |-> idx, host |-> res.file_data.contents])
              /\ idx' = idx + 1
              /\ UNCHANGED <<pc, error, raised, disk, openedW>>
           \/ /\ file_data.path # NoPath
              /\ is_bmh_cr_file(file_data.path)
              /\ ~res.ok
              /\ LoopRaises(res.err)
    /\ LoopFrame

\* The loop and the "with" block of line 49 end.
LoopExit ==
    /\ pc = "DocumentDecoded"
    /\ idx > Len(data.files)
    /\ pc' = "Mutated"
    /\ UNCHANGED <<disk, inventory, inventory_endpoint, hosts_list, data, idx, error,
                   disk0, raised, openedW, encoded, fetches, calls>>
    /\ UNCHANGED <<tvars, rvars, gvars>>

WriteFrame ==
    /\ UNCHANGED <<inventory, inventory_endpoint, hosts_list, data, idx, disk0,
                   fetches, calls>>
    /\ UNCHANGED <<tvars, rvars, gvars>>

\* Line 57: open(ignition_file, "w") truncates the file in place.
OpenWrite ==
    /\ pc = "Mutated"
    /\ \/ /\ disk' = <<>>
          /\ openedW' = TRUE
          /\ pc' = "Writing"
          /\ UNCHANGED <<error, raised>>
       \/ Fail("PermissionError")
    /\ UNCHANGED encoded
    /\ WriteFrame

\* Line 58: json.dump writes each chunk of the encoder as it is produced.
WriteChunk ==
    /\ pc = "Writing"
    /\ Len(disk) < Len(Encode(data))
    /\ \/ /\ encoded' = encoded + 1
          /\ disk' = Append(disk, Encode(data)[Len(disk) + 1])
          /\ UNCHANGED <<pc, error, raised, openedW>>
       \/ /\ Fail("OSError")
          /\ UNCHANGED encoded
    /\ WriteFrame

\* The "with" block of line 57 ends: update_bmh_files returns.
CloseWrite ==
    /\ pc = "Writing"
    /\ Len(disk) = Len(Encode(data))
    /\ pc' = "Persisted"
    /\ UNCHANGED <<disk, error, raised, openedW, encoded>>
    /\ WriteFrame

UpdateBmhFiles ==
    \/ FetchHosts
    \/ DecodeDocument
    \/ LoopStep
    \/ LoopExit
    \/ OpenWrite
    \/ WriteChunk
    \/ CloseWrite

\* Another process reads the document path, at any moment.
Read ==
    /\ reader = "waiting"
    /\ observed' = disk
    /\ reader' = "done"
    /\ UNCHANGED <<uvars, tvars, gvars>>

\* The two-run scenario: after a first successful call the caller puts the
\* original document back and calls update_bmh_files again.
Restart ==
    /\ pc = "Persisted"
    /\ run = 1
    /\ first' = disk
    /\ run' = 2
    /\ disk' = disk0
    /\ pc' = "Idle"
    /\ data' = NoData
    /\ idx' = 0
    /\ openedW' = FALSE
    /\ encoded' = 0
    /\ fetches' = 0
    /\ calls' = <<>>
    /\ UNCHANGED <<inventory, inventory_endpoint, hosts_list, error, disk0, raised>>
    /\ UNCHANGED <<rvars, gvars>>

Next == UpdateBmhFiles \/ Read
Spec == Init /\ [][Next]_vars

NextTwice == UpdateBmhFiles \/ Restart
SpecTwice == Init /\ [][NextTwice]_vars

\* ------------------------------------- generate_installation_files

\* raise Exception('Failed to generate files, exception: {}'.format(ex))
WrapGenerate(cause) == [msg |-> "Failed to generate files", cause |-> cause]

\* Line 92, the context manager up to its yield: shutil.copyfile of
\* install-config.yaml to backup-install-config.yaml.
Backup ==
    /\ gpc = "start"
    /\ \/ /\ cfg # Absent
          /\ bak' = cfg
          /\ gpc' = "yielded"
          /\ UNCHANGED gerr
       \/ /\ cfg = Absent
          /\ gerr' = [msg |-> "", cause |-> "FileNotFoundError"]
          /\ gpc' = "failed"
          /\ UNCHANGED bak
    /\ UNCHANGED <<cfg, cfg0, bakAtRun, cfgLeft, installer>>
    /\ UNCHANGED <<uvars, tvars, rvars>>

\* A faulty variant: the restore runs in a "finally", also when the command failed.
RunInstallerFinally ==
    /\ gpc = "yielded"
    /\ bakAtRun' = bak
    /\ \E left \in ConfigFiles :
          /\ cfgLeft' = left
          /\ \/ /\ cfg' = left
                /\ installer' = "ok"
                /\ gpc' = "installed"
                /\ UNCHANGED <<gerr, bak>>
             \/ /\ cfg' = bak
                /\ bak' = Absent
                /\ installer' = "failed"
                /\ gerr' = WrapGenerate("CalledProcessError")
                /\ gpc' = "failed"
    /\ UNCHANGED cfg0
    /\ UNCHANGED <<uvars, tvars, rvars>>

\* Lines 101-108, the body of the "with": the installer command runs and
\* leaves install-config.yaml in a state of its own choosing.  When it
\* fails the wrapped exception is thrown into the generator at its yield,
\* which has no try/finally: the lines after the yield do not run.
RunInstaller ==
    /\ gpc = "yielded"
    /\ bakAtRun' = bak
    /\ \E left \in ConfigFiles :
          /\ cfg' = left
          /\ cfgLeft' = left
          /\ \/ /\ installer' = "ok"
                /\ gpc' = "installed"
                /\ UNCHANGED gerr
             \/ /\ installer' = "failed"
                /\ gerr' = WrapGenerate("CalledProcessError")
                /\ gpc' = "failed"
    /\ UNCHANGED <<bak, cfg0>>
    /\ UNCHANGED <<uvars, tvars, rvars>>

\* Lines 94-95, the context manager after its yield: shutil.move of the
\* backup over install-config.yaml.
Restore ==
    /\ gpc = "installed"
    /\ cfg' = bak
    /\ bak' = Absent
    /\ gpc' = "done"
    /\ UNCHANGED <<gerr, cfg0, bakAtRun, cfgLeft, installer>>
    /\ UNCHANGED <<uvars, tvars, rvars>>

NextGen == Backup \/ RunInstaller \/ Restore
SpecGen == InitGen /\ [][NextGen]_vars

\* ---------------------------------------------------------- properties

Terminated == pc \in {"Persisted", "Failed"}

\* The entries of the document the call started from.
files0 == Decode(disk0).files

Qualifying(files) == { i \in 1..Len(files) : is_bmh_cr_file(files[i].path) }

\* The number of qualifying entries among the first i entries.
Rank(files, i) == Cardinality({ j \in 1..i : is_bmh_cr_file(files[j].path) })

\* The document in which the k-th qualifying entry carries the k-th host.
ExpectedDoc ==
    [storage |-> TRUE,
     files |-> [i \in 1..Len(files0) |->
                  IF is_bmh_cr_file(files0[i].path)
                  THEN [files0[i] EXCEPT !.contents = inventory[Rank(files0, i)]]
                  ELSE files0[i]]]

\* The failures of steps 1-3: host retrieval, reading and decoding the
\* document, its keys, and the mutation of an entry.
EarlyFailures ==
    {"RetrievalError", "FileNotFoundError", "DecodeError", "KeyError", "CorrelationError"}

\* C1: when the host retrieval, the decoding of the document or the
\* mutation of an entry fails, the file was never opened for writing and
\* holds what it held when the call started.
C1_NoWriteOnEarlyFailure ==
    (pc = "Failed" /\ raised \in EarlyFailures) => (~openedW /\ disk = disk0)

\* C1 witness: the mutation of a later entry failed after an earlier entry
\* was mutated in memory, and the file is the original.
C1_Witness ==
    /\ pc = "Failed"
    /\ raised = "CorrelationError"
    /\ calls # <<>>
    /\ data # Decode(disk0)
    /\ disk = disk0

\* C2 (as claimed): every call is all-or-nothing for the file: after a
\* successful call the file is the fully updated document, after a failed
\* call, whatever the failing step, it is the original.
C2_AllOrNothing ==
    /\ pc = "Persisted" => disk = Encode(ExpectedDoc)
    /\ pc = "Failed" => disk = disk0

\* C3 (as claimed): whenever another process reads the document path it
\* gets the complete original document or the complete new one.
C3_ReaderSeesWholeDocument ==
    reader = "done" =>
        \/ observed = disk0
        \/ openedW /\ observed = Encode(data)

\* C4: a failure raised inside the call reaches the caller as the one
\* wrapped exception carrying its cause; none is swallowed (the call never
\* goes on or returns normally after a failure) and no exception is raised
\* without a failure.
C4_FailuresWrapped ==
    /\ pc = "Failed" =>
          /\ raised # ""
          /\ error = [msg |-> "Failed to update BMH CRs in bootstrap ignition",
                      cause |-> raised]
    /\ raised # "" => pc = "Failed"
    /\ pc # "Failed" => error = NoError

\* C4 witness: a missing key made the call fail.
C4_Witness == pc = "Failed" /\ raised = "KeyError" /\ error.cause = "KeyError"

\* C5: after a successful call the persisted storage.files list has as
\* many entries as before, every entry whose path does not qualify is equal
\* to the original at the same position, and the mutator was only ever
\* handed qualifying entries.
C5_Frame ==
    /\ \A k \in 1..Len(calls) : calls[k].i \in Qualifying(files0)
    /\ pc = "Persisted" =>
          /\ WellFormed(disk)
          /\ Decode(disk).storage
          /\ Len(Decode(disk).files) = Len(files0)
          /\ \A i \in 1..Len(files0) :
                ~is_bmh_cr_file(files0[i].path) => Decode(disk).files[i] = files0[i]

\* C5 witness: a persisted document with an untouched entry and a
\* qualifying entry that changed.
C5_Witness ==
    /\ pc = "Persisted"
    /\ \E i, j \in 1..Len(files0) :
          /\ ~is_bmh_cr_file(files0[i].path)
          /\ is_bmh_cr_file(files0[j].path)
          /\ Decode(disk).files[j] # files0[j]

FewerHosts ==
    /\ WellFormed(disk0)
    /\ Decode(disk0).storage
    /\ Cardinality(Qualifying(files0)) > Len(inventory)

\* No entry of the original document is faulty in itself.
SoundEntries ==
    \A i \in 1..Len(files0) :
        files0[i].path # NoPath /\ files0[i].contents # Malformed

C8_OrderKept ==
    /\ fetches <= 1
    /\ (pc \in {"HostsFetched", "DocumentDecoded", "Mutated", "Writing", "Persisted"}
          \/ calls # <<>>) => fetches = 1
    /\ \A j, k \in 1..Len(calls) : j < k => calls[j].i < calls[k].i
    /\ pc \in {"Mutated", "Writing", "Persisted"} =>
          { calls[k].i : k \in 1..Len(calls) } = Qualifying(files0)
    /\ Terminated => ~ENABLED UpdateBmhFiles

\* C8, the encoding: once anything of the new document is in the file, the
\* encoder has produced the whole document.
C8_EncodedBeforePersisted ==
    (openedW /\ Len(disk) > 0) => encoded = Len(Encode(data))

\* C8 (as claimed): each call goes Idle, HostsFetched, DocumentDecoded,
\* Mutating(i) per matched entry, DocumentEncoded, Persisted, or ends in
\* Failed: the order above, with the document fully encoded before it is
\* persisted.
C8_StateMachine == C8_OrderKept /\ C8_EncodedBeforePersisted

C10_BackupRestore ==
    /\ installer # "not run" => (cfg0 # Absent /\ bakAtRun = cfg0)
    /\ gpc = "done" => (installer = "ok" /\ cfg = cfg0 /\ bak = Absent /\ gerr = NoError)
    /\ installer = "failed" =>
          /\ gpc = "failed"
          /\ gerr = [msg |-> "Failed to generate files", cause |-> "CalledProcessError"]
          /\ bak = cfg0
          /\ cfg = cfgLeft

\* C10 witness: the installer deleted install-config.yaml and failed; the
\* backup is still there.
C10_Witness ==
    /\ installer = "failed"
    /\ cfg = Absent
    /\ bak # Absent

====
